---------------------------- MODULE Spec2Model ----------------------------
(***************************************************************************)
(* Model of the three request handlers of lambda-playground:               *)
(*   src/lambda_functions/api_handler.py       (API Gateway echo)          *)
(*   src/lambda_functions/dynamodb_handler.py  (key-value dispatcher)      *)
(*   src/lambda_functions/s3_event_handler.py  (S3 batch processor)        *)
(*                                                                         *)
(* A handler is a function of its event, its context and the outcome of    *)
(* the external calls it makes.  Each handler is an operator yielding the   *)
(* SET of its possible runs (one per outcome of the service), a run being   *)
(* either a returned response or a raised exception, with the log of the    *)
(* service calls it made.                                                   *)
(***************************************************************************)
EXTENDS Naturals, Sequences, FiniteSets, TLC

VARIABLES pc, handler, event, context, outcome, calls

vars == <<pc, handler, event, context, outcome, calls>>

----------------------------------------------------------------------------
(* Bounds of the model.                                                    *)

\* longest Records list of an S3 event
MaxRecords == 2
\* longest Items list of a scan response
MaxItems == 2

----------------------------------------------------------------------------
(* Python / JSON values.  Every value is a record tagged by its type, so   *)
(* that a lookup that finds a value of the wrong type can be told apart    *)
(* from one that finds none.                                               *)

\* dict.get found no such key (before the default is applied)
Absent == [t |-> "absent"]
\* None / JSON null
Null == [t |-> "null"]
Str(s) == [t |-> "str", v |-> s]
Num(n) == [t |-> "num", v |-> n]
\* a decimal.Decimal, as boto3 returns DynamoDB numbers
Decimal(n) == [t |-> "decimal", v |-> n]
\* a dict; r is a function from its keys to values
Map(r) == [t |-> "map", v |-> r]
\* a list
List(s) == [t |-> "list", v |-> s]
\* True / False
Bool(b) == [t |-> "bool", v |-> b]
EmptyMap == Map(<<>>)
EmptyList == List(<<>>)

IsMap(x) == x.t = "map"
IsStr(x) == x.t = "str"
IsList(x) == x.t = "list"

\* Python truth value: None, "", 0, {} and [] are false
Truthy(x) ==
    CASE x.t = "null" -> FALSE
      [] x.t = "absent" -> FALSE
      [] x.t = "bool" -> x.v
      [] x.t = "str" -> x.v # ""
      [] x.t = "num" -> x.v # 0
      [] x.t = "decimal" -> x.v # 0
      [] x.t = "map" -> DOMAIN x.v # {}
      [] x.t = "list" -> Len(x.v) # 0

\* d.get(k, default) on a dict d
Get(d, k, default) == IF k \in DOMAIN d.v THEN d.v[k] ELSE default

\* d.get(k) raises AttributeError unless d is a dict
CanGet(d) == IsMap(d)

\* the dict of the given fields, those that are Absent left out
MkMap(f) == Map([k \in {j \in DOMAIN f : f[j] # Absent} |-> f[k]])

\* d with d[k] = x added or replaced
Put(d, k, x) == Map([j \in DOMAIN d.v \cup {k} |-> IF j = k THEN x ELSE d.v[j]])

----------------------------------------------------------------------------
(* Strings: str.upper() and the substring test `sub in s`.                 *)

UpperChar(c) ==
    CASE c = "a" -> "A" [] c = "b" -> "B" [] c = "c" -> "C" [] c = "d" -> "D"
      [] c = "e" -> "E" [] c = "f" -> "F" [] c = "g" -> "G" [] c = "h" -> "H"
      [] c = "i" -> "I" [] c = "j" -> "J" [] c = "k" -> "K" [] c = "l" -> "L"
      [] c = "m" -> "M" [] c = "n" -> "N" [] c = "o" -> "O" [] c = "p" -> "P"
      [] c = "q" -> "Q" [] c = "r" -> "R" [] c = "s" -> "S" [] c = "t" -> "T"
      [] c = "u" -> "U" [] c = "v" -> "V" [] c = "w" -> "W" [] c = "x" -> "X"
      [] c = "y" -> "Y" [] c = "z" -> "Z" [] OTHER -> c

RECURSIVE Upper(_)
Upper(s) ==
    IF Len(s) = 0 THEN ""
    ELSE UpperChar(SubSeq(s, 1, 1)) \o Upper(SubSeq(s, 2, Len(s)))

\* Python `sub in s` for strings
Contains(s, sub) ==
    \E i \in 1..(Len(s) + 1) :
        /\ i + Len(sub) - 1 <= Len(s)
        /\ SubSeq(s, i, i + Len(sub) - 1) = sub

----------------------------------------------------------------------------
(* json.loads and json.dumps.                                              *)

\* the texts of the model that are JSON documents, with the value each decodes to
JsonDocs ==
    [text : {"{\"x\":1}"}, value : {Map([x |-> Num(1)])}]
    \cup [text : {"{}"}, value : {EmptyMap}]
    \cup [text : {"null"}, value : {Null}]

\* json.loads raises JSONDecodeError on a text that is no JSON document
CanLoads(s) == \E d \in JsonDocs : d.text = s
JsonLoads(s) == (CHOOSE d \in JsonDocs : d.text = s).value

\* what default=str makes of a value json cannot encode
RECURSIVE DefaultStr(_)
DefaultStr(x) ==
    CASE x.t = "decimal" -> Str(ToString(x.v))
      [] x.t = "map" -> Map([k \in DOMAIN x.v |-> DefaultStr(x.v[k])])
      [] x.t = "list" -> List([i \in 1..Len(x.v) |-> DefaultStr(x.v[i])])
      [] OTHER -> x

\* json.dumps(x): the JSON text of document x
Dumps(x) == [json |-> x]
\* json.dumps(x, default=str)
DumpsDefaultStr(x) == [json |-> DefaultStr(x)]

----------------------------------------------------------------------------
(* Runs: how a block of code ends.                                         *)

Return(resp, log) == [kind |-> "return", resp |-> resp, calls |-> log]
Raise(exc, log) == [kind |-> "raise", exc |-> exc, calls |-> log]

\* the exception classes the handlers tell apart
ClientErrors == {"ClientError"}
\* a botocore error that is no ClientError (no endpoint, no credentials, bad parameter)
OtherServiceErrors == {"EndpointConnectionError"}

\* one call of the service, as logged, and its outcomes
Call(api, result) == [api |-> api, result |-> result]
Ok(response) == [ok |-> TRUE, response |-> response]
Fails(exc) == [ok |-> FALSE, exc |-> exc]


----------------------------------------------------------------------------
(* dynamodb_handler.py                                                     *)

TABLE_NAME == "lambda-playground-table"

\* the items the table may hold; boto3 returns a number attribute as a Decimal
StoredItems == {Map([id |-> Str("1"), n |-> Decimal(7)]), Map([id |-> Str("2")])}

\* the lists of at most n stored items
ItemLists(n) == UNION {[1..k -> StoredItems] : k \in 0..n}

\* what table.get_item may do: an item, no item, a ClientError, another error
GetItemOutcomes ==
    {Ok(Map([Item |-> i])) : i \in StoredItems}
    \cup {Ok(EmptyMap)}
    \cup {Fails(e) : e \in ClientErrors \cup OtherServiceErrors}

\* what table.put_item and table.delete_item may do
WriteOutcomes == {Ok(EmptyMap)} \cup {Fails(e) : e \in ClientErrors \cup OtherServiceErrors}

\* what table.scan may do: a page of items (possibly none), or an error
ScanOutcomes ==
    {Ok(Map([Items |-> List(s)])) : s \in ItemLists(MaxItems)}
    \cup {Ok(EmptyMap)}
    \cup {Fails(e) : e \in ClientErrors \cup OtherServiceErrors}

\* the `except ClientError` clause of each branch: 500 "DynamoDB error";
\* any other exception leaves the branch
DynamoClientError(exc, log) ==
    IF exc \in ClientErrors
    THEN Return([statusCode |-> 500,
                 body |-> Dumps(Map([error |-> Str("DynamoDB error"),
                                     message |-> Str(exc)]))], log)
    ELSE Raise(exc, log)

\* line 53: the operation field, else the HTTP method, else GET
OperationField(ev) == Get(ev, "operation", Get(ev, "httpMethod", Str("GET")))

\* line 53 raises AttributeError on an event that is no dict and on an
\* operation that is no string
OperationRaises(ev) == ~CanGet(ev) \/ ~IsStr(OperationField(ev))

Operation(ev) == Upper(OperationField(ev).v)

\* lines 67-94: the get_item call and its three results
GetItemRun(key, o) ==
    LET log == <<Call("get_item", o)>>
    IN  IF ~o.ok THEN DynamoClientError(o.exc, log)
        ELSE LET item == Get(o.response, "Item", Null)
             IN  IF Truthy(item)
                 THEN Return([statusCode |-> 200,
                              body |-> DumpsDefaultStr(Map(
                                  [message |-> Str("Item retrieved successfully"),
                                   item |-> item]))], log)
                 ELSE Return([statusCode |-> 404,
                              body |-> Dumps(Map([message |-> Str("Item not found"),
                                                  key |-> key]))], log)

\* GetBranch with the key only required to be there: `if 'key' not in event`
GetBranchKeyPresenceOnly(ev) ==
    LET key == Get(ev, "key", EmptyMap)
    IN  IF "key" \notin DOMAIN ev.v
        THEN {Return([statusCode |-> 400,
                      body |-> Dumps(Map(
                          [error |-> Str("Key is required for GET operation"),
                           event |-> ev]))], <<>>)}
        ELSE {GetItemRun(key, o) : o \in GetItemOutcomes}

\* lines 55-94: operation GET or READ
GetBranch(ev) ==
    LET key == Get(ev, "key", EmptyMap)
    IN  IF ~Truthy(key)
        THEN {Return([statusCode |-> 400,
                      body |-> Dumps(Map(
                          [error |-> Str("Key is required for GET operation"),
                           event |-> ev]))], <<>>)}
        ELSE {GetItemRun(key, o) : o \in GetItemOutcomes}

\* PutItemRun with the call made again after a failure
PutItemRunRetry(item, o) ==
    IF ~o.ok THEN DynamoClientError(o.exc, <<Call("put_item", o), Call("put_item", o)>>)
    ELSE Return([statusCode |-> 200,
                 body |-> DumpsDefaultStr(Map(
                     [message |-> Str("Item created/updated successfully"),
                      item |-> item]))], <<Call("put_item", o)>>)

\* lines 113-129: the put_item call
PutItemRun(item, o) ==
    LET log == <<Call("put_item", o)>>
    IN  IF ~o.ok THEN DynamoClientError(o.exc, log)
        ELSE Return([statusCode |-> 200,
                     body |-> DumpsDefaultStr(Map(
                         [message |-> Str("Item created/updated successfully"),
                          item |-> item]))], log)

\* PutBranch with a payload that does not decode taken for no payload
PutBranchDecodeFailureIsNoItem(ev) ==
    LET raw == Get(ev, "item", Get(ev, "body", EmptyMap))
        item == IF ~IsStr(raw) THEN raw
                ELSE IF CanLoads(raw.v) THEN JsonLoads(raw.v) ELSE EmptyMap
    IN  IF ~Truthy(item)
        THEN {Return([statusCode |-> 400,
                      body |-> Dumps(Map(
                          [error |-> Str("Item data is required for PUT operation"),
                           event |-> ev]))], <<>>)}
        ELSE {PutItemRun(item, o) : o \in WriteOutcomes}

\* lines 96-129: operation PUT, CREATE or UPDATE
PutBranch(ev) ==
    LET raw == Get(ev, "item", Get(ev, "body", EmptyMap))
    IN  IF IsStr(raw) /\ ~CanLoads(raw.v)
        THEN {Raise("JSONDecodeError", <<>>)}
        ELSE LET item == IF IsStr(raw) THEN JsonLoads(raw.v) ELSE raw
             IN  IF ~Truthy(item)
                 THEN {Return([statusCode |-> 400,
                               body |-> Dumps(Map(
                                   [error |-> Str("Item data is required for PUT operation"),
                                    event |-> ev]))], <<>>)}
                 ELSE {PutItemRun(item, o) : o \in WriteOutcomes}

\* lines 143-159: the delete_item call
DeleteItemRun(key, o) ==
    LET log == <<Call("delete_item", o)>>
    IN  IF ~o.ok THEN DynamoClientError(o.exc, log)
        ELSE Return([statusCode |-> 200,
                     body |-> Dumps(Map([message |-> Str("Item deleted successfully"),
                                         key |-> key]))], log)

\* lines 131-159: operation DELETE
DeleteBranch(ev) ==
    LET key == Get(ev, "key", EmptyMap)
    IN  IF ~Truthy(key)
        THEN {Return([statusCode |-> 400,
                      body |-> Dumps(Map(
                          [error |-> Str("Key is required for DELETE operation"),
                           event |-> ev]))], <<>>)}
        ELSE {DeleteItemRun(key, o) : o \in WriteOutcomes}

\* ScanRun with an empty result reported as not found
ScanRunEmptyIs404(o) ==
    LET log == <<Call("scan", o)>>
    IN  IF ~o.ok THEN DynamoClientError(o.exc, log)
        ELSE LET items == Get(o.response, "Items", EmptyList)
             IN  IF ~Truthy(items)
                 THEN Return([statusCode |-> 404,
                              body |-> Dumps(Map([message |-> Str("No items found")]))],
                             log)
                 ELSE Return([statusCode |-> 200,
                              body |-> DumpsDefaultStr(Map(
                                  [message |-> Str("Retrieved " \o ToString(Len(items.v))
                                                   \o " item(s)"),
                                   count |-> Num(Len(items.v)),
                                   items |-> items]))], log)

\* lines 163-182: the scan call
ScanRun(o) ==
    LET log == <<Call("scan", o)>>
    IN  IF ~o.ok THEN DynamoClientError(o.exc, log)
        ELSE LET items == Get(o.response, "Items", EmptyList)
             IN  Return([statusCode |-> 200,
                         body |-> DumpsDefaultStr(Map(
                             [message |-> Str("Retrieved " \o ToString(Len(items.v))
                                              \o " item(s)"),
                              count |-> Num(Len(items.v)),
                              items |-> items]))], log)

\* lines 161-182: operation LIST or SCAN
ListBranch(ev) == {ScanRun(o) : o \in ScanOutcomes}

\* lines 184-191: any other operation
UnsupportedBranch(operation) ==
    {Return([statusCode |-> 400,
             body |-> Dumps(Map(
                 [error |-> Str("Unsupported operation: " \o operation),
                  supportedOperations |->
                      List(<<Str("GET"), Str("PUT"), Str("DELETE"), Str("LIST")>>)]))],
            <<>>)}

\* DynamoTryBody with the method POST taken for a write
DynamoTryBodyPostWrites(ev) ==
    IF OperationRaises(ev) THEN {Raise("AttributeError", <<>>)}
    ELSE LET operation == Operation(ev)
         IN  CASE operation \in {"GET", "READ"} -> GetBranch(ev)
               [] operation \in {"PUT", "CREATE", "UPDATE", "POST"} -> PutBranch(ev)
               [] operation = "DELETE" -> DeleteBranch(ev)
               [] operation \in {"LIST", "SCAN"} -> ListBranch(ev)
               [] OTHER -> UnsupportedBranch(operation)

\* lines 49-191: the body of the try
DynamoTryBody(ev) ==
    IF OperationRaises(ev) THEN {Raise("AttributeError", <<>>)}
    ELSE LET operation == Operation(ev)
         IN  CASE operation \in {"GET", "READ"} -> GetBranch(ev)
               [] operation \in {"PUT", "CREATE", "UPDATE"} -> PutBranch(ev)
               [] operation = "DELETE" -> DeleteBranch(ev)
               [] operation \in {"LIST", "SCAN"} -> ListBranch(ev)
               [] OTHER -> UnsupportedBranch(operation)

\* DynamoCatchAll catching ClientError only
DynamoCatchClientErrorOnly(run) ==
    IF run.kind = "raise" /\ run.exc \in ClientErrors
    THEN Return([statusCode |-> 500,
                 body |-> Dumps(Map([error |-> Str("Internal server error"),
                                     message |-> Str(run.exc),
                                     tableName |-> Str(TABLE_NAME)]))], run.calls)
    ELSE run

\* lines 193-201: except Exception
DynamoCatchAll(run) ==
    IF run.kind = "raise"
    THEN Return([statusCode |-> 500,
                 body |-> Dumps(Map([error |-> Str("Internal server error"),
                                     message |-> Str(run.exc),
                                     tableName |-> Str(TABLE_NAME)]))], run.calls)
    ELSE run

\* lines 31-201: the runs of lambda_handler on an event
dynamodb_lambda_handler(ev) == {DynamoCatchAll(run) : run \in DynamoTryBody(ev)}

----------------------------------------------------------------------------
(* The invocation context: None on a local run, else an object exposing    *)
(* its request identifier as request_id, which is how the invocation       *)
(* boundary of the specification gives it.  On an object without that      *)
(* attribute the read raises AttributeError inside the handler's try.      *)

Contexts == {Null, Map([request_id |-> Str("req-1")])}

\* `context.request_id` raises AttributeError on an object without it
RequestIdRaises(ctx) == Truthy(ctx) /\ "request_id" \notin DOMAIN ctx.v

\* context.request_id if context else 'local-test'
RequestId(ctx) == IF Truthy(ctx) THEN ctx.v["request_id"] ELSE Str("local-test")

----------------------------------------------------------------------------
(* api_handler.py                                                          *)

\* line 26 evaluates the nested default eagerly: it raises AttributeError when
\* the event, its requestContext or the http entry of that is no dict
MethodRaises(ev) ==
    \/ ~CanGet(ev)
    \/ ~CanGet(Get(ev, "requestContext", EmptyMap))
    \/ ~CanGet(Get(Get(ev, "requestContext", EmptyMap), "http", EmptyMap))

\* line 26: httpMethod, else requestContext.http.method, else GET
HttpMethod(ev) ==
    Get(ev, "httpMethod",
        Get(Get(Get(ev, "requestContext", EmptyMap), "http", EmptyMap),
            "method", Str("GET")))

\* line 27: path, else rawPath, else /
Path(ev) == Get(ev, "path", Get(ev, "rawPath", Str("/")))

\* lines 28-29: event.get(k) or {}
OrEmpty(ev, k) == IF Truthy(Get(ev, k, Null)) THEN Get(ev, k, Null) ELSE EmptyMap

\* lines 33-35: json.loads of a body that is no string raises TypeError, which
\* the inner `except json.JSONDecodeError` does not catch
BodyRaises(ev) == Truthy(Get(ev, "body", Null)) /\ ~IsStr(Get(ev, "body", Null))

\* lines 32-37: the decoded body, the raw text when it does not decode, None
\* when there is none
ParsedBody(ev) ==
    LET raw == Get(ev, "body", Null)
    IN  IF ~Truthy(raw) THEN Null
        ELSE IF CanLoads(raw.v) THEN JsonLoads(raw.v)
        ELSE raw

\* lines 40-49
ResponseData(ev, ctx) ==
    Map([message |-> Str("Hello from API Gateway Lambda!"),
         method |-> HttpMethod(ev),
         path |-> Path(ev),
         pathParameters |-> OrEmpty(ev, "pathParameters"),
         queryParameters |-> OrEmpty(ev, "queryStringParameters"),
         body |-> ParsedBody(ev),
         headers |-> Get(ev, "headers", EmptyMap),
         requestId |-> RequestId(ctx)])

\* Route with the POST test made before the health test
RoutePostFirst(ev, ctx) ==
    LET data == ResponseData(ev, ctx)
        body == ParsedBody(ev)
    IN  IF HttpMethod(ev) = Str("POST") /\ Truthy(body)
        THEN [data |-> Put(Put(data, "message",
                                   Str("POST request received successfully")),
                               "receivedData", body),
              status_code |-> 201]
        ELSE IF Path(ev) = Str("/health") \/ Path(ev) = Str("/health/")
        THEN [data |-> Put(data, "status", Str("healthy")), status_code |-> 200]
        ELSE [data |-> data, status_code |-> 200]

\* lines 51-62: the route, as the response data and the status code
Route(ev, ctx) ==
    LET data == ResponseData(ev, ctx)
        body == ParsedBody(ev)
    IN  IF Path(ev) = Str("/health") \/ Path(ev) = Str("/health/")
        THEN [data |-> Put(data, "status", Str("healthy")), status_code |-> 200]
        ELSE IF HttpMethod(ev) = Str("POST") /\ Truthy(body)
        THEN [data |-> Put(Put(data, "message",
                                   Str("POST request received successfully")),
                               "receivedData", body),
              status_code |-> 201]
        ELSE [data |-> data, status_code |-> 200]

ApiHeaders ==
    Map(("Content-Type" :> Str("application/json"))
        @@ ("Access-Control-Allow-Origin" :> Str("*"))
        @@ ("Access-Control-Allow-Headers" :> Str("Content-Type"))
        @@ ("Access-Control-Allow-Methods" :> Str("GET,POST,OPTIONS")))

\* lines 25-74: the body of the try
ApiTryBody(ev, ctx) ==
    IF MethodRaises(ev) THEN Raise("AttributeError", <<>>)
    ELSE IF BodyRaises(ev) THEN Raise("TypeError", <<>>)
    ELSE IF RequestIdRaises(ctx) THEN Raise("AttributeError", <<>>)
    ELSE LET r == Route(ev, ctx)
         IN  Return([statusCode |-> r.status_code,
                     headers |-> ApiHeaders,
                     body |-> Dumps(r.data)], <<>>)

\* lines 76-87: except Exception
ApiCatchAll(run) ==
    IF run.kind = "raise"
    THEN Return([statusCode |-> 500,
                 headers |-> Map("Content-Type" :> Str("application/json")),
                 body |-> Dumps(Map([error |-> Str("Internal server error"),
                                     message |-> Str(run.exc)]))], run.calls)
    ELSE run

\* lines 13-87: the runs of lambda_handler on an event and a context
api_lambda_handler(ev, ctx) == {ApiCatchAll(ApiTryBody(ev, ctx))}

----------------------------------------------------------------------------
(* s3_event_handler.py                                                     *)

\* what s3_client.head_object may do
HeadObjectOutcomes ==
    {Ok(Map([ContentType |-> Str("text/plain"),
             LastModified |-> Str("2024-01-01 00:00:00"),
             Metadata |-> EmptyMap])),
     Ok(EmptyMap)}
    \cup {Fails(e) : e \in ClientErrors \cup OtherServiceErrors}

\* how an f-string shows a value
Fmt(x) == IF IsStr(x) THEN x.v ELSE ToString(x.v)

\* lines 55-59 raise AttributeError when the record, its s3 entry, or the
\* bucket or object entry of that is no dict
ExtractRaises(record) ==
    \/ ~CanGet(record)
    \/ ~CanGet(Get(record, "s3", EmptyMap))
    \/ ~CanGet(Get(Get(record, "s3", EmptyMap), "bucket", EmptyMap))
    \/ ~CanGet(Get(Get(record, "s3", EmptyMap), "object", EmptyMap))

\* lines 55-68: the result as first built, processed = True
BaseResult(record) ==
    LET s3_data == Get(record, "s3", EmptyMap)
    IN  Map([eventName |-> Get(record, "eventName", Str("")),
             bucket |-> Get(Get(s3_data, "bucket", EmptyMap), "name", Str("")),
             key |-> Get(Get(s3_data, "object", EmptyMap), "key", Str("")),
             size |-> Get(Get(s3_data, "object", EmptyMap), "size", Num(0)),
             processed |-> Bool(TRUE)])

\* line 71: `'ObjectCreated' in event_name or 'Put' in event_name`
IsPutEvent(event_name) ==
    Contains(event_name.v, "ObjectCreated") \/ Contains(event_name.v, "Put")

\* Enrich with a failed lookup marking the record unprocessed
EnrichFailureUnprocessed(result, o) ==
    IF o.ok
    THEN Put(Put(Put(result,
             "contentType", Get(o.response, "ContentType", Str("unknown"))),
             "lastModified", Get(o.response, "LastModified", Str(""))),
             "metadata", Get(o.response, "Metadata", EmptyMap))
    ELSE Put(Put(result, "error", Str("Failed to get object metadata: " \o o.exc)),
             "processed", Bool(FALSE))

\* lines 73-82: the metadata lookup; its failure only adds an error field
Enrich(result, o) ==
    IF o.ok
    THEN Put(Put(Put(result,
             "contentType", Get(o.response, "ContentType", Str("unknown"))),
             "lastModified", Get(o.response, "LastModified", Str(""))),
             "metadata", Get(o.response, "Metadata", EmptyMap))
    ELSE Put(result, "error", Str("Failed to get object metadata: " \o o.exc))

\* lines 71-84: a PUT event, looked up with outcome o
PutEventRun(result, o) ==
    Return(Put(Enrich(result, o), "message",
               Str("Successfully processed S3 object: " \o Fmt(result.v["key"]))),
           <<Call("head_object", o)>>)

\* lines 85-87: any other event
OtherEventRun(result) ==
    Return(Put(Put(result, "message",
                   Str("Event " \o Fmt(result.v["eventName"])
                       \o " not processed (only processing PUT events)")),
               "processed", Bool(FALSE)),
           <<>>)

\* lines 54-89: the body of the inner try, for one record
RecordTryBody(record) ==
    IF ExtractRaises(record) THEN {Raise("AttributeError", <<>>)}
    ELSE LET result == BaseResult(record)
             event_name == result.v["eventName"]
         IN  IF ~IsStr(event_name) THEN {Raise("TypeError", <<>>)}
             ELSE IF IsPutEvent(event_name)
             THEN {PutEventRun(result, o) : o \in HeadObjectOutcomes}
             ELSE {OtherEventRun(result)}

\* RecordCatch letting the exception of a record through
RecordCatchMissing(record, run) == run

\* lines 91-97: except Exception, for one record
RecordCatch(record, run) ==
    IF run.kind = "raise"
    THEN Return(Map([error |-> Str(run.exc), record |-> record, processed |-> Bool(FALSE)]),
                run.calls)
    ELSE run

\* lines 53-97: the runs of one pass of the loop; a run returns the result
\* appended to results
RecordRuns(record) == {RecordCatch(record, run) : run \in RecordTryBody(record)}

\* lines 52-97: the runs of the loop over the records, in order; an
\* exception that leaves a pass ends the loop
RECURSIVE LoopRuns(_)
LoopRuns(records) ==
    IF Len(records) = 0 THEN {Return(<<>>, <<>>)}
    ELSE UNION {
        IF h.kind = "raise" THEN {h}
        ELSE {IF t.kind = "raise"
              THEN Raise(t.exc, h.calls \o t.calls)
              ELSE Return(<<h.resp>> \o t.resp, h.calls \o t.calls)
              : t \in LoopRuns(Tail(records))}
        : h \in RecordRuns(Head(records))}

\* lines 99-106: the summary of the batch
Summary(records, ctx, loop) ==
    IF RequestIdRaises(ctx) THEN Raise("AttributeError", loop.calls)
    ELSE Return([statusCode |-> 200,
                 body |-> Dumps(Map(
                     [message |-> Str("Processed " \o ToString(Len(records))
                                      \o " S3 event(s)"),
                      results |-> List(loop.resp),
                      requestId |-> RequestId(ctx)]))], loop.calls)

\* S3TryBody without the test for no records
S3TryBodyNoEmptyTest(ev, ctx) ==
    IF ~CanGet(ev) THEN {Raise("AttributeError", <<>>)}
    ELSE LET records == Get(ev, "Records", EmptyList)
         IN  IF ~IsList(records) THEN {Raise("TypeError", <<>>)}
             ELSE {IF loop.kind = "raise" THEN loop
                   ELSE Summary(records.v, ctx, loop)
                   : loop \in LoopRuns(records.v)}

\* lines 40-106: the body of the outer try
S3TryBody(ev, ctx) ==
    IF ~CanGet(ev) THEN {Raise("AttributeError", <<>>)}
    ELSE LET records == Get(ev, "Records", EmptyList)
         IN  IF ~Truthy(records)
             THEN {Return([statusCode |-> 400,
                           body |-> Dumps(Map(
                               [message |-> Str("No S3 records found in event"),
                                event |-> ev]))], <<>>)}
             ELSE IF ~IsList(records) THEN {Raise("TypeError", <<>>)}
             ELSE {IF loop.kind = "raise" THEN loop
                   ELSE Summary(records.v, ctx, loop)
                   : loop \in LoopRuns(records.v)}

\* lines 108-117: except Exception
S3CatchAll(ev, run) ==
    IF run.kind = "raise"
    THEN Return([statusCode |-> 500,
                 body |-> Dumps(Map([error |-> Str("Failed to process S3 events"),
                                     message |-> Str(run.exc),
                                     event |-> ev]))], run.calls)
    ELSE run

\* lines 26-117: the runs of lambda_handler on an event and a context
s3_lambda_handler(ev, ctx) == {S3CatchAll(ev, run) : run \in S3TryBody(ev, ctx)}

----------------------------------------------------------------------------
(* The events the handlers are invoked with.  A field drawn as Absent is   *)
(* left out of the event.                                                  *)

\* an event that is no dict at all
MalformedEvents == {Null, EmptyList}

JsonTexts == {Str("{\"x\":1}"), Str("{}"), Str("not json"), Str("")}

ApiEvents ==
    {MkMap(f) : f \in
        [httpMethod : {Absent, Str("GET"), Str("POST"), Str("DELETE")},
         requestContext : {Absent, Null, EmptyMap,
                           Map([http |-> Map([method |-> Str("POST")])])},
         path : {Absent, Str("/health"), Str("/health/"), Str("/items")},
         rawPath : {Absent, Str("/health")},
         body : {Absent, Map([x |-> Num(1)])} \cup JsonTexts,
         operation : {Absent, Str("DELETE")}]}
    \cup MalformedEvents

DynamoEvents ==
    {MkMap(f) : f \in
        [operation : {Absent, Null, Str("read"), Str("Get"), Str("PUT"),
                      Str("create"), Str("Update"), Str("DELETE"), Str("list"),
                      Str("Scan"), Str("health")},
         httpMethod : {Absent, Str("GET"), Str("POST"), Str("PUT"), Str("DELETE")},
         key : {Absent, Null, EmptyMap, Map([id |-> Str("1")])},
         item : {Absent, EmptyMap, Map([id |-> Str("1")]), Str("{\"x\":1}"),
                 Str("not json")},
         body : {Absent} \cup JsonTexts,
         path : {Absent, Str("/health")}]}
    \cup MalformedEvents

S3Records ==
    {Map([eventName |-> Str("ObjectCreated:Put"),
          s3 |-> Map([bucket |-> Map([name |-> Str("b1")]),
                      object |-> Map([key |-> Str("a.txt"), size |-> Num(10)])])]),
     Map([eventName |-> Str("ObjectRemoved:Delete"),
          s3 |-> Map([bucket |-> Map([name |-> Str("b1")]),
                      object |-> Map([key |-> Str("b.txt")])])]),
     Map([eventName |-> Str("ObjectCreated:Put"), s3 |-> Null]),
     Map([eventName |-> Num(7)]),
     EmptyMap,
     Str("oops")}

S3Events ==
    {Map([Records |-> List(s)]) : s \in UNION {[1..k -> S3Records] : k \in 0..MaxRecords}}
    \cup {EmptyMap, Map([Records |-> Null]), Map([Records |-> Num(5)])}
    \cup MalformedEvents

----------------------------------------------------------------------------
(* The state machine: the runtime invokes a handler with an event and a    *)
(* context and the handler runs to its end; invocations share no state.    *)

NoOutcome == [kind |-> "none"]

Init ==
    /\ pc = "idle"
    /\ handler = "none"
    /\ event = Null
    /\ context = Null
    /\ outcome = NoOutcome
    /\ calls = <<>>

\* the invocation of handler h on ev and ctx ends as run
Ends(h, ev, ctx, run) ==
    /\ pc' = "done"
    /\ handler' = h
    /\ event' = ev
    /\ context' = ctx
    /\ outcome' = IF run.kind = "raise" THEN [kind |-> "raise", exc |-> run.exc]
                  ELSE [kind |-> "return", resp |-> run.resp]
    /\ calls' = run.calls

InvokeApi ==
    /\ pc = "idle"
    /\ \E ev \in ApiEvents, ctx \in Contexts :
           \E run \in api_lambda_handler(ev, ctx) : Ends("api", ev, ctx, run)

InvokeDynamodb ==
    /\ pc = "idle"
    /\ \E ev \in DynamoEvents, ctx \in Contexts :
           \E run \in dynamodb_lambda_handler(ev) : Ends("dynamodb", ev, ctx, run)

InvokeS3 ==
    /\ pc = "idle"
    /\ \E ev \in S3Events, ctx \in Contexts :
           \E run \in s3_lambda_handler(ev, ctx) : Ends("s3", ev, ctx, run)

\* the runtime takes the response; nothing of the invocation is kept
Complete ==
    /\ pc = "done"
    /\ pc' = "idle"
    /\ handler' = "none"
    /\ event' = Null
    /\ context' = Null
    /\ outcome' = NoOutcome
    /\ calls' = <<>>

Next == InvokeApi \/ InvokeDynamodb \/ InvokeS3 \/ Complete

Spec == Init /\ [][Next]_vars

----------------------------------------------------------------------------
(* What the claims are stated in: the response of a finished invocation.   *)

\* handler h has returned a response
Returned(h) == pc = "done" /\ handler = h /\ outcome.kind = "return"
StatusCode == outcome.resp.statusCode
\* the fields of the document serialized into the response body
Doc == outcome.resp.body.json.v
\* field k of the document is the string s
DocStr(k, s) == k \in DOMAIN Doc /\ Doc[k] = Str(s)

\* the dispatcher was invoked with a record it could classify, as one of ops
Dispatched(ops) ==
    /\ pc = "done" /\ handler = "dynamodb"
    /\ IsMap(event)
    /\ IsStr(OperationField(event))
    /\ Upper(OperationField(event).v) \in ops

----------------------------------------------------------------------------
(* C1: every invocation of each of the three handlers ends by returning    *)
(* one response with an integer statusCode, whatever the event (a          *)
(* malformed one included) and whatever the service does: no exception     *)
(* leaves a handler, and an unexpected failure (an event that is no        *)
(* mapping, a service error of any kind) yields statusCode 500.            *)
C1_EveryInvocationReturns ==
    pc = "done" =>
        /\ handler \in {"api", "dynamodb", "s3"}
        /\ outcome.kind = "return"
        /\ StatusCode \in {200, 201, 400, 404, 500}
        /\ (event \in MalformedEvents => StatusCode = 500)
        /\ (handler = "dynamodb" /\ Len(calls) > 0 /\ ~calls[Len(calls)].result.ok
                => StatusCode = 500)

\* a service error that is no ClientError reaches the catch-all and comes back as 500
C1_Witness ==
    /\ Returned("dynamodb")
    /\ calls = <<Call("get_item", Fails("EndpointConnectionError"))>>
    /\ StatusCode = 500
    /\ DocStr("error", "Internal server error")

----------------------------------------------------------------------------
(* C2: for every record without a key, or with an empty one, a READ        *)
(* dispatch and a DELETE dispatch each return 400 with an error that names *)
(* the key as required, and the service is not called.                     *)
C2_MissingKeyIs400 ==
    Dispatched({"GET", "READ", "DELETE"}) /\ ~Truthy(Get(event, "key", EmptyMap)) =>
        /\ outcome.kind = "return"
        /\ StatusCode = 400
        /\ "error" \in DOMAIN Doc
        /\ Contains(Doc["error"].v, "Key is required")
        /\ calls = <<>>

\* a DELETE with an empty key
C2_Witness ==
    /\ Dispatched({"DELETE"})
    /\ Get(event, "key", Absent) = EmptyMap
    /\ Returned("dynamodb")
    /\ StatusCode = 400
    /\ DocStr("error", "Key is required for DELETE operation")

----------------------------------------------------------------------------
\* the fields the API handler reads can be read: requestContext and its http
\* entry are mappings when present, the body is a string or empty
ApiReadable(ev) ==
    /\ IsMap(Get(ev, "requestContext", EmptyMap))
    /\ IsMap(Get(Get(ev, "requestContext", EmptyMap), "http", EmptyMap))
    /\ (Truthy(Get(ev, "body", Null)) => IsStr(Get(ev, "body", Null)))

(* C3 as stated: for every record whose path is the health-check path the  *)
(* outcome is HEALTH (200 with the healthy body), whatever the method and  *)
(* whatever explicit operation field the record carries, in the API        *)
(* handler and in the dispatcher that reads the operation field.  Stated   *)
(* here for the records whose fields can all be read and whose operation,  *)
(* if any, is a string, so that no refutation rests on a malformed record. *)
C3_Original_HealthPathAlwaysWins ==
    /\ pc = "done" /\ handler \in {"api", "dynamodb"}
    /\ IsMap(event)
    /\ Get(event, "path", Absent) \in {Str("/health"), Str("/health/")}
    /\ ApiReadable(event)
    /\ IsStr(OperationField(event))
    => /\ outcome.kind = "return"
       /\ StatusCode = 200
       /\ DocStr("status", "healthy")

(* C3, amended: in the API handler, a record whose path (the path field,   *)
(* else rawPath) is /health or /health/ gets 200 with status "healthy"     *)
(* whatever its method, its body and its operation field, provided its     *)
(* fields can be read at all (requestContext and its http entry are        *)
(* mappings when present, the body is a string or empty); in particular a  *)
(* POST with a body gets 200 there, not 201.                               *)
C3_ApiHealthPathWins ==
    /\ pc = "done" /\ handler = "api"
    /\ IsMap(event)
    /\ Path(event) \in {Str("/health"), Str("/health/")}
    /\ ApiReadable(event)
    => /\ outcome.kind = "return"
       /\ StatusCode = 200
       /\ DocStr("status", "healthy")
       /\ "receivedData" \notin DOMAIN Doc

\* a POST with a JSON body and an operation field, sent to /health
C3_Witness ==
    /\ Returned("api")
    /\ IsMap(event)
    /\ Get(event, "path", Absent) = Str("/health")
    /\ Get(event, "httpMethod", Absent) = Str("POST")
    /\ Get(event, "body", Absent) = Str("{\"x\":1}")
    /\ Get(event, "operation", Absent) = Str("DELETE")
    /\ StatusCode = 200
    /\ DocStr("status", "healthy")

----------------------------------------------------------------------------
\* the record of C4: method POST, body {"x":1}, no operation field
IsPostRecord ==
    /\ pc = "done" /\ handler = "dynamodb"
    /\ IsMap(event)
    /\ "operation" \notin DOMAIN event.v
    /\ Get(event, "httpMethod", Absent) = Str("POST")
    /\ Get(event, "body", Absent) = Str("{\"x\":1}")

(* C4 as stated: that record is classified UNKNOWN and answered 400 with   *)
(* the error "Unsupported operation: UNKNOWN" and the list of supported    *)
(* operations; no write reaches the service.                               *)
C4_Original_PostIsUnknown ==
    IsPostRecord =>
        /\ outcome.kind = "return"
        /\ StatusCode = 400
        /\ DocStr("error", "Unsupported operation: UNKNOWN")
        /\ "supportedOperations" \in DOMAIN Doc
        /\ calls = <<>>

(* C4, amended: a record with httpMethod POST, body {"x":1} and no         *)
(* operation field is not taken for a write: it is answered 400 with the   *)
(* error "Unsupported operation: POST" (the upper-cased method itself;     *)
(* there is no UNKNOWN tag) and the supported operations GET, PUT, DELETE, *)
(* LIST; no call reaches the service.                                      *)
C4_PostIsUnsupported ==
    IsPostRecord =>
        /\ outcome.kind = "return"
        /\ StatusCode = 400
        /\ DocStr("error", "Unsupported operation: POST")
        /\ "supportedOperations" \in DOMAIN Doc
        /\ Doc["supportedOperations"] =
               List(<<Str("GET"), Str("PUT"), Str("DELETE"), Str("LIST")>>)
        /\ calls = <<>>

\* exactly the record of the scenario: httpMethod and body and nothing else
C4_Witness ==
    /\ IsPostRecord
    /\ DOMAIN event.v = {"httpMethod", "body"}
    /\ Returned("dynamodb")
    /\ StatusCode = 400
    /\ DocStr("error", "Unsupported operation: POST")

----------------------------------------------------------------------------
(* What the batch claims are stated in.                                    *)

\* the batch processor was invoked with a list of records
Batch == pc = "done" /\ handler = "s3" /\ IsMap(event)
             /\ IsList(Get(event, "Records", EmptyList))
Records == Get(event, "Records", EmptyList).v
\* the results of the response, in order
Results == Doc["results"].v

\* the fields of a record cannot be read: the record, its s3 entry, or the
\* bucket or object entry of that is present and no mapping, or its event
\* name is no string
Unreadable(record) ==
    \/ ~IsMap(record)
    \/ ~IsMap(Get(record, "s3", EmptyMap))
    \/ ~IsMap(Get(Get(record, "s3", EmptyMap), "bucket", EmptyMap))
    \/ ~IsMap(Get(Get(record, "s3", EmptyMap), "object", EmptyMap))
    \/ ~IsStr(Get(record, "eventName", Str("")))

\* the event name of a readable record carries the created/put marker
HasMarker(record) ==
    LET name == Get(record, "eventName", Str("")).v
    IN  Contains(name, "ObjectCreated") \/ Contains(name, "Put")

\* result r is the result of record: it echoes the record, or its event name and key
ResultOf(r, record) ==
    IF Unreadable(record)
    THEN /\ DOMAIN r.v = {"error", "record", "processed"}
         /\ r.v["record"] = record
         /\ r.v["processed"] = Bool(FALSE)
         /\ IsStr(r.v["error"])
    ELSE /\ {"eventName", "key", "processed", "message"} \subseteq DOMAIN r.v
         /\ r.v["eventName"] = Get(record, "eventName", Str(""))
         /\ r.v["key"] = Get(Get(Get(record, "s3", EmptyMap), "object", EmptyMap),
                             "key", Str(""))

----------------------------------------------------------------------------
(* C5: for every non-empty list of n records the batch processor returns   *)
(* 200 with exactly n results, the i-th being the result of the i-th       *)
(* record; a record whose processing fails contributes a result with       *)
(* processed = false and the error, the records after it are still         *)
(* processed, and the status is 200 however many records fail.             *)
C5_PartialFailureIsolation ==
    Batch /\ Len(Records) > 0 =>
        /\ outcome.kind = "return"
        /\ StatusCode = 200
        /\ DocStr("message", "Processed " \o ToString(Len(Records)) \o " S3 event(s)")
        /\ Len(Results) = Len(Records)
        /\ \A i \in 1..Len(Records) : ResultOf(Results[i], Records[i])

\* a batch whose first record fails and whose second is processed
C5_Witness ==
    /\ Batch /\ Len(Records) = 2
    /\ Returned("s3")
    /\ StatusCode = 200
    /\ Unreadable(Records[1])
    /\ Results[1].v["processed"] = Bool(FALSE)
    /\ "error" \in DOMAIN Results[1].v
    /\ ~Unreadable(Records[2])
    /\ Results[2].v["processed"] = Bool(TRUE)
    /\ Len(calls) = 1

----------------------------------------------------------------------------
(* C6: when the records are empty or absent the batch processor returns    *)
(* 400 at once with a "no records" message: no record is processed (the    *)
(* response carries no results) and no metadata lookup is made.            *)
C6_NoRecordsIs400 ==
    /\ pc = "done" /\ handler = "s3" /\ IsMap(event)
    /\ Get(event, "Records", EmptyList) \in {EmptyList, Null}
    => /\ outcome.kind = "return"
       /\ StatusCode = 400
       /\ DocStr("message", "No S3 records found in event")
       /\ "results" \notin DOMAIN Doc
       /\ calls = <<>>

\* an event whose Records list is there and empty
C6_Witness ==
    /\ Returned("s3")
    /\ event = Map([Records |-> EmptyList])
    /\ StatusCode = 400
    /\ calls = <<>>

----------------------------------------------------------------------------
(* C7 as stated: a LIST dispatch returns 200, with a count equal to the    *)
(* number of items the scan returned and those items; never 404.           *)
C7_Original_ListIsAlways200 ==
    Dispatched({"LIST", "SCAN"}) =>
        /\ outcome.kind = "return"
        /\ StatusCode = 200
        /\ "count" \in DOMAIN Doc
        /\ "items" \in DOMAIN Doc

\* the items of a successful scan response
Scanned == Get(calls[1].result.response, "Items", EmptyList)

(* C7, amended: a LIST dispatch makes one scan.  When the scan succeeds it *)
(* returns 200 with a count equal to the number of items the scan returned *)
(* and that item sequence (as json.dumps with default=str writes it); on   *)
(* an empty store that is 200 with count 0 and no items.  When the scan    *)
(* fails it returns 500.  It never returns 404.                            *)
C7_ListCountsItems ==
    Dispatched({"LIST", "SCAN"}) =>
        /\ outcome.kind = "return"
        /\ Len(calls) = 1 /\ calls[1].api = "scan"
        /\ StatusCode # 404
        /\ IF calls[1].result.ok
           THEN /\ StatusCode = 200
                /\ Doc["count"] = Num(Len(Scanned.v))
                /\ Doc["items"] = DefaultStr(Scanned)
                /\ Len(Doc["items"].v) = Len(Scanned.v)
                /\ (Scanned = EmptyList =>
                        Doc["count"] = Num(0) /\ Doc["items"] = EmptyList)
           ELSE StatusCode = 500

\* a LIST on an empty store
C7_Witness ==
    /\ Dispatched({"LIST"})
    /\ Returned("dynamodb")
    /\ calls = <<Call("scan", Ok(Map([Items |-> EmptyList])))>>
    /\ StatusCode = 200
    /\ Doc["count"] = Num(0)
    /\ Doc["items"] = EmptyList

----------------------------------------------------------------------------
\* the payload of a WRITE: the item field, else the body field
Payload == Get(event, "item", Get(event, "body", EmptyMap))

(* C8: a WRITE dispatch whose payload is a string that does not decode     *)
(* returns 500, not 400: the failure is not dropped, it is not reported as *)
(* a missing item, and put is not called.                                  *)
C8_UndecodablePayloadIs500 ==
    /\ Dispatched({"PUT", "CREATE", "UPDATE"})
    /\ IsStr(Payload) /\ ~CanLoads(Payload.v)
    => /\ outcome.kind = "return"
       /\ StatusCode = 500
       /\ DocStr("error", "Internal server error")
       /\ ~DocStr("error", "Item data is required for PUT operation")
       /\ calls = <<>>

\* a PUT whose body is not JSON
C8_Witness ==
    /\ Dispatched({"PUT"})
    /\ "item" \notin DOMAIN event.v
    /\ Get(event, "body", Absent) = Str("not json")
    /\ Returned("dynamodb")
    /\ StatusCode = 500
    /\ DocStr("message", "JSONDecodeError")

----------------------------------------------------------------------------
----------------------------------------------------------------------------
(* C10: an invocation of the dispatcher makes at most one service call,    *)
(* and does not repeat it when it fails; it makes none when it answers 400 *)
(* (missing key, missing item, unsupported operation).                     *)
C10_AtMostOneServiceCall ==
    pc = "done" /\ handler = "dynamodb" =>
        /\ Len(calls) <= 1
        /\ outcome.kind = "return"
        /\ (StatusCode = 400 => calls = <<>>)
        /\ (StatusCode \in {200, 404} => Len(calls) = 1 /\ calls[1].result.ok)

\* a put that failed, once
C10_Witness ==
    /\ Returned("dynamodb")
    /\ calls = <<Call("put_item", Fails("ClientError"))>>
    /\ StatusCode = 500
    /\ DocStr("error", "DynamoDB error")

============================================================================
